---------------------------- MODULE Spec2Model ----------------------------
(***************************************************************************)
(* Model of app.py of pdf-sections-streamlit: the line normalizer, the     *)
(* heading patterns, find_section_spans, the upload/render flow of the UI  *)
(* and split_for_platform.                                                 *)
(*                                                                         *)
(* A string is a sequence of characters; a character is a one-character    *)
(* TLA+ string, except for the three typographic characters the normalizer *)
(* replaces, which are written by their code points: "U+2019" (right       *)
(* single quote), "U+2013" (en dash), "U+2014" (em dash).                  *)
(* Line indices are 0-based as in the source; lines[i + 1] is line i.      *)
(***************************************************************************)
EXTENDS Integers, Sequences, FiniteSets, TLC

VARIABLES
    pc,          \* position of the UI script / of the function under study
    report,      \* what the UI reported: st.error / st.warning, or "none"
    full,        \* the extracted text (full / full_text)
    lines,       \* full_text.splitlines(keepends=True)
    L,           \* the line records: [raw, norm] per line
    target_idx,  \* key -> heading line index
    all_heads,   \* indices of the heading-candidate lines
    i,           \* index of the scan loop of find_section_spans
    spans,       \* key -> [start_abs, end_abs, start_line]
    k,           \* index of the render loop over SECTION_ORDER
    rendered,    \* the sections rendered so far: [key, section_raw]
    line,        \* input of the line-level study (normalize, patterns)
    norm,        \* normalize(line)
    renorm,      \* normalize(normalize(line))
    matched,     \* keys whose single-line pattern matches norm
    s,           \* split_for_platform: the input string
    limit,       \* split_for_platform: the limit
    remain,      \* split_for_platform: the text still to cut
    parts        \* split_for_platform: the chunks produced

lineVars == <<line, norm, renorm, matched>>
splitVars == <<s, limit, remain, parts>>
vars == <<pc, report, full, lines, L, target_idx, all_heads, i, spans, k,
               rendered, line, norm, renorm, matched, s, limit, remain, parts>>

---------------------------------------------------------------------------
(* Bounds of the model.                                                    *)

MaxLines == 3

MaxTokens == 3

MaxStr == 5

MaxLimit == 3

---------------------------------------------------------------------------
(* Characters.                                                             *)

RSQUO == "U+2019"

ENDASH == "U+2013"

EMDASH == "U+2014"

SpaceChars == {" ", "\t", "\n", "\r", "\f"}

LineBreakChars == {"\n", "\r", "\f"}

DigitChars == {"0", "1", "2", "3", "4", "5", "6", "7", "8", "9"}

UPPER == <<"A","B","C","D","E","F","G","H","I","J","K","L","M",
           "N","O","P","Q","R","S","T","U","V","W","X","Y","Z">>

LOWER == <<"a","b","c","d","e","f","g","h","i","j","k","l","m",
           "n","o","p","q","r","s","t","u","v","w","x","y","z">>

LowerChar(c) ==
    IF \E n \in 1..Len(UPPER) : UPPER[n] = c
    THEN LOWER[CHOOSE n \in 1..Len(UPPER) : UPPER[n] = c]
    ELSE c

Min(S) == CHOOSE x \in S : \A y \in S : x <= y

Max(S) == CHOOSE x \in S : \A y \in S : x >= y

RECURSIVE Concat(_)
Concat(ss) == IF ss = <<>> THEN <<>> ELSE Head(ss) \o Concat(Tail(ss))

\* str.replace(old, new) for one-character old and new
Replace(str, old, new) == [n \in 1..Len(str) |-> IF str[n] = old THEN new ELSE str[n]]

\* str.strip()
Strip(str) ==
    IF \A n \in 1..Len(str) : str[n] \in SpaceChars THEN <<>>
    ELSE LET first == CHOOSE n \in 1..Len(str) :
                          /\ str[n] \notin SpaceChars
                          /\ \A m \in 1..(n - 1) : str[m] \in SpaceChars
             last  == CHOOSE n \in 1..Len(str) :
                          /\ str[n] \notin SpaceChars
                          /\ \A m \in (n + 1)..Len(str) : str[m] \in SpaceChars
         IN  SubSeq(str, first, last)

\* re.sub(r"\s+", " ", str), on the positions lo..hi of str: a whitespace
\* character that follows another one is dropped, any other becomes a blank.
\* The range is halved at each call.
RECURSIVE CollapseFrom(_, _, _)
CollapseFrom(str, lo, hi) ==
    IF lo > hi THEN <<>>
    ELSE IF lo = hi
         THEN (IF str[lo] \in SpaceChars
               THEN (IF lo > 1 /\ str[lo - 1] \in SpaceChars THEN <<>> ELSE <<" ">>)
               ELSE <<str[lo]>>)
         ELSE LET mid == (lo + hi) \div 2
              IN  CollapseFrom(str, lo, mid) \o CollapseFrom(str, mid + 1, hi)

Collapse(str) == CollapseFrom(str, 1, Len(str))

\* str.lower()
Lower(str) == [n \in 1..Len(str) |-> LowerChar(str[n])]

\* A mutant of normalize: the em dash is replaced by an en dash after the en
\* dashes were replaced.
normalizeDashChain(str) ==
    Lower(Collapse(Strip(
        Replace(Replace(Replace(str, RSQUO, "'"), ENDASH, "-"), EMDASH, ENDASH))))

normalize(str) ==
    Lower(Collapse(Strip(
        Replace(Replace(Replace(str, RSQUO, "'"), ENDASH, "-"), EMDASH, "-"))))

---------------------------------------------------------------------------
(* Regular expressions, as the sets of positions a match can reach: a      *)
(* position is the number of characters consumed so far.                   *)

\* a literal
MatchLit(str, P, lit) ==
    {p + Len(lit) : p \in {q \in P : q + Len(lit) <= Len(str)
                                     /\ SubSeq(str, q + 1, q + Len(lit)) = lit}}

\* lit?
MatchOpt(str, P, lit) == P \cup MatchLit(str, P, lit)

\* one character of the class C
MatchClass(str, P, C) == {p + 1 : p \in {q \in P : q < Len(str) /\ str[q + 1] \in C}}

\* C*
MatchStar(str, P, C) ==
    {q \in 0..Len(str) : \E p \in P : p <= q /\ \A n \in (p + 1)..q : str[n] \in C}

\* C+
MatchPlus(str, P, C) == MatchStar(str, MatchClass(str, P, C), C)

\* A mutant of AtEnd: the pattern is not anchored at the end.
AtEndUnanchored(str, P) == P # {}

\* $ : the end of the string, or just before a newline that ends the string
AtEnd(str, P) ==
    \/ Len(str) \in P
    \/ Len(str) > 0 /\ str[Len(str)] = "\n" /\ (Len(str) - 1) \in P

\* A mutant of Enum: no whitespace allowed between the digits and the . or )
EnumNoGap(str, P) ==
    P \cup MatchStar(str,
               MatchClass(str, MatchPlus(str, P, DigitChars), {".", ")"}),
               SpaceChars)

\* enum = (?:\d+\s*[.)]\s*)?
Enum(str, P) ==
    P \cup MatchStar(str,
               MatchClass(str,
                   MatchStar(str, MatchPlus(str, P, DigitChars), SpaceChars),
                   {".", ")"}),
               SpaceChars)

\* H_TODAY.match(str)
H_TODAY(str) ==
    LET p0 == Enum(str, {0})
        p1 == MatchLit(str, p0, <<"t","o","d","a","y">>)
        p2 == MatchOpt(str, p1, <<"'">>)
        p3 == MatchLit(str, p2, <<"s">>)
        p4 == MatchPlus(str, p3, SpaceChars)
        p5 == MatchLit(str, p4, <<"m","u","s","t">>)
        p6 == MatchOpt(str, p5, <<"-">>)
        p7 == MatchLit(str, p6, <<"k","n","o","w">>)
        p8 == MatchPlus(str, p7, SpaceChars)
        p9 == MatchLit(str, p8, <<"n","e","w","s">>)
    IN  AtEnd(str, MatchStar(str, p9, SpaceChars))

\* H_AMER.match(str)
H_AMER(str) ==
    LET p0 == Enum(str, {0})
        p1 == MatchLit(str, p0, <<"a","m","e","r","i","c","a","s">>)
    IN  AtEnd(str, MatchStar(str, p1, SpaceChars))

\* H_GC.match(str)
H_GC(str) ==
    LET p0 == Enum(str, {0})
        p1 == MatchLit(str, p0, <<"g","r","e","a","t","e","r">>)
        p2 == MatchPlus(str, p1, SpaceChars)
        p3 == MatchLit(str, p2, <<"c","h","i","n","a">>)
    IN  AtEnd(str, MatchStar(str, p3, SpaceChars))

---------------------------------------------------------------------------
(* The section keys, in the order of SECTION_ORDER.                        *)

TODAY == "todays_must_know_news"

AMERICAS == "americas"

GREATER_CHINA == "greater_china"

SECTION_ORDER == <<TODAY, AMERICAS, GREATER_CHINA>>

Keys == {TODAY, AMERICAS, GREATER_CHINA}

US_ALIASES ==
    { <<"u","s">>, <<"u",".","s",".">>, <<"u","s","a">>, <<"u",".","s",".","a",".">>,
      <<"u","n","i","t","e","d"," ","s","t","a","t","e","s">> }

CN_ALIASES == { <<"c","n">>, <<"p","r","c">>, <<"c","h","i","n","a">> }

\* the single-line pattern of a key, applied to a normalized line
Matches(key, str) ==
    CASE key = TODAY -> H_TODAY(str)
      [] key = AMERICAS -> H_AMER(str)
      [] key = GREATER_CHINA -> H_GC(str)

---------------------------------------------------------------------------
(* Line-level study: normalize and the three patterns on one line. A line  *)
(* is the concatenation of at most MaxTokens tokens.                       *)

Tokens ==
    {
       <<" ">>,
       <<"\t">>,
       <<RSQUO>>,
       <<ENDASH>>,
       <<EMDASH>>,
       <<"x">>,
       <<"1", ".", " ">>,
       <<"2", ")">>,
       <<"3", " ", ".">>,
       <<"A", "m", "e", "r", "i", "c", "a", "s">>,
       <<"G", "R", "E", "A", "T", "E", "R", " ", "\t", "C", "H", "I", "N", "A">>,
       <<"T", "o", "d", "a", "y", RSQUO, "s", " ", "M", "u", "s", "t", ENDASH, "K", "n", "o", "w", " ", "N", "e", "w", "s">>,
       <<"T", "o", "d", "a", "y", "s", " ", "M", "u", "s", "t", "K", "n", "o", "w", " ", "N", "e", "w", "s">>,
       <<"T", "o", "d", "a", "y", "s", " ", "M", "u", "s", "t", " ", "K", "n", "o", "w", " ", "N", "e", "w", "s">>
    }

TokenLines == {Concat(ts) : ts \in UNION {[1..n -> Tokens] : n \in 0..MaxTokens}}

InitLine ==
    /\ pc = "line"
    /\ line \in TokenLines
    /\ norm = <<>>
    /\ renorm = <<>>
    /\ matched = {}
    /\ report = "none" /\ full = <<>> /\ lines = <<>> /\ L = <<>>
    /\ target_idx = <<>> /\ all_heads = {} /\ i = 0 /\ spans = <<>>
    /\ k = 0 /\ rendered = <<>>
    /\ s = <<>> /\ limit = 0 /\ remain = <<>> /\ parts = <<>>

\* norm = normalize(raw)
NormalizeLine ==
    /\ pc = "line"
    /\ norm' = normalize(line)
    /\ pc' = "normalized"
    /\ UNCHANGED <<line, renorm, matched>>
    /\ UNCHANGED <<report, full, lines, L, target_idx, all_heads, i, spans, k, rendered>>
    /\ UNCHANGED splitVars

\* H_TODAY.match(norm), H_AMER.match(norm), H_GC.match(norm)
ClassifyLine ==
    /\ pc = "normalized"
    /\ matched' = {key \in Keys : Matches(key, norm)}
    /\ pc' = "classified"
    /\ UNCHANGED <<line, norm, renorm>>
    /\ UNCHANGED <<report, full, lines, L, target_idx, all_heads, i, spans, k, rendered>>
    /\ UNCHANGED splitVars

\* normalize applied to its own result
RenormalizeLine ==
    /\ pc = "classified"
    /\ renorm' = normalize(norm)
    /\ pc' = "renormalized"
    /\ UNCHANGED <<line, norm, matched>>
    /\ UNCHANGED <<report, full, lines, L, target_idx, all_heads, i, spans, k, rendered>>
    /\ UNCHANGED splitVars

NextLine == NormalizeLine \/ ClassifyLine \/ RenormalizeLine

SpecLine == InitLine /\ [][NextLine]_vars

---------------------------------------------------------------------------
(* Claims about the line normalizer and the heading patterns (SpecLine).   *)

Chars(str) == {str[n] : n \in 1..Len(str)}

\* C7: normalize is idempotent: normalizing an already normalized line
\* returns it unchanged.
C7_NormalizeIdempotent == pc = "renormalized" => renorm = norm

\* A line with an em dash, upper case and a run of whitespace has been
\* normalized twice.
C7_Witness ==
    /\ pc = "renormalized"
    /\ EMDASH \in Chars(line)
    /\ Chars(line) \cap {"A", "G", "T"} # {}
    /\ \E n \in 1..(Len(line) - 1) : line[n] \in SpaceChars /\ line[n + 1] \in SpaceChars
    /\ norm # line
    /\ norm # <<>>

\* The heading texts of the three targets, in normalized form.
HeadingForms(key) ==
    CASE key = TODAY ->
           { <<"t","o","d","a","y","'","s"," ","m","u","s","t","-","k","n","o","w"," ","n","e","w","s">>,
             <<"t","o","d","a","y","s"," ","m","u","s","t","-","k","n","o","w"," ","n","e","w","s">>,
             <<"t","o","d","a","y","'","s"," ","m","u","s","t","k","n","o","w"," ","n","e","w","s">>,
             <<"t","o","d","a","y","s"," ","m","u","s","t","k","n","o","w"," ","n","e","w","s">> }
      [] key = AMERICAS -> { <<"a","m","e","r","i","c","a","s">> }
      [] key = GREATER_CHINA -> { <<"g","r","e","a","t","e","r"," ","c","h","i","n","a">> }

\* An enumeration prefix: one or more digits, optional whitespace, then . or ),
\* then optional whitespace (whitespace before the digits is the line's own
\* leading whitespace).
IsEnumPrefix(pre) ==
    LET t == Strip(pre)
    IN  /\ Len(t) >= 2
        /\ t[Len(t)] \in {".", ")"}
        /\ \E b \in 1..(Len(t) - 1) :
               /\ \A n \in 1..b : t[n] \in DigitChars
               /\ \A n \in (b + 1)..(Len(t) - 1) : t[n] \in SpaceChars

\* The raw line is the heading text of the key, alone or after an enumeration
\* prefix, and nothing else but surrounding whitespace.
IsHeadingLine(key, raw) ==
    \E cut \in 0..Len(raw) :
        /\ cut = 0 \/ raw[cut] \in SpaceChars \cup {".", ")"}
        /\ \/ Strip(SubSeq(raw, 1, cut)) = <<>>
           \/ IsEnumPrefix(SubSeq(raw, 1, cut))
        /\ normalize(SubSeq(raw, cut + 1, Len(raw))) \in HeadingForms(key)

\* C8: a line is matched for a key exactly when it is the key's heading text,
\* alone or after an enumeration prefix; any other leading or trailing text
\* prevents the match.
C8_EnumerationTolerance ==
    pc \in {"classified", "renormalized"} =>
        \A key \in Keys : (key \in matched) <=> IsHeadingLine(key, line)

\* A line "3 .<heading>" (whitespace between the digit and the dot) was
\* matched.
C8_Witness ==
    /\ pc = "classified"
    /\ matched # {}
    /\ Len(line) > 3
    /\ SubSeq(line, 1, 3) = <<"3", " ", ".">>

---------------------------------------------------------------------------
(* find_section_spans.                                                     *)

MaxHeadingLen == 80

\* the position of the first line break character of str at or after start
BreakAt(str, start) ==
    CHOOSE n \in start..Len(str) :
        /\ str[n] \in LineBreakChars
        /\ \A m \in start..(n - 1) : str[m] \notin LineBreakChars

\* str.splitlines(keepends): the lines of str from position start on; \r\n is
\* one terminator.
RECURSIVE SplitFrom(_, _, _)
SplitFrom(str, start, keepends) ==
    IF start > Len(str) THEN <<>>
    ELSE IF \A n \in start..Len(str) : str[n] \notin LineBreakChars
         THEN <<SubSeq(str, start, Len(str))>>
         ELSE LET n   == BreakAt(str, start)
                  end == IF str[n] = "\r" /\ n < Len(str) /\ str[n + 1] = "\n"
                         THEN n + 1 ELSE n
              IN  <<SubSeq(str, start, IF keepends THEN end ELSE n - 1)>>
                  \o SplitFrom(str, end + 1, keepends)

\* A mutant of splitlines: the line terminators are dropped.
splitlinesNoEnds(str) == SplitFrom(str, 1, FALSE)

\* full_text.splitlines(keepends=True)
splitlines(str) == SplitFrom(str, 1, TRUE)

\* L = [(i, raw, normalize(raw)) ...]; the index is the position in the sequence
LineRecords(lns) == [n \in 1..Len(lns) |-> [raw |-> lns[n], norm |-> normalize(lns[n])]]

looks_like_heading(raw) ==
    LET t == Strip(raw)
    IN  /\ t # <<>>
        /\ Len(t) <= MaxHeadingLen
        /\ t[Len(t)] \notin {".", "!", "?", ";", ","}

\* A mutant of RecordFirst: a later match overwrites the index recorded.
RecordLast(idx, key, n, cond) ==
    IF cond
    THEN [x \in DOMAIN idx \cup {key} |-> IF x = key THEN n ELSE idx[x]]
    ELSE idx

\* if key not in target_idx and cond: target_idx[key] = n
RecordFirst(idx, key, n, cond) ==
    IF key \notin DOMAIN idx /\ cond
    THEN [x \in DOMAIN idx \cup {key} |-> IF x = key THEN n ELSE idx[x]]
    ELSE idx

\* the three single-line matches of line n
SingleLine(idx, n, nrm) ==
    LET t1 == RecordFirst(idx, TODAY, n, H_TODAY(nrm))
        t2 == RecordFirst(t1, AMERICAS, n, H_AMER(nrm))
    IN  RecordFirst(t2, GREATER_CHINA, n, H_GC(nrm))

\* j = n + 1; while j < len(L) and not L[j][1].strip(): j += 1
RECURSIVE SkipBlank(_, _)
SkipBlank(recs, j) ==
    IF j < Len(recs) /\ Strip(recs[j + 1].raw) = <<>>
    THEN SkipBlank(recs, j + 1)
    ELSE j

\* A mutant of TwoLine: the index of the canonical heading line is recorded
\* in place of the alias line's.
TwoLineTarget(idx, n, recs) ==
    LET j == SkipBlank(recs, n + 1)
    IN  IF j < Len(recs)
        THEN LET t1 == RecordFirst(idx, AMERICAS, j,
                           recs[n + 1].norm \in US_ALIASES /\ H_AMER(recs[j + 1].norm))
             IN  RecordFirst(t1, GREATER_CHINA, j,
                     recs[n + 1].norm \in CN_ALIASES /\ H_GC(recs[j + 1].norm))
        ELSE idx

\* the two-line patterns at line n: US + Americas, CN + Greater China
TwoLine(idx, n, recs) ==
    LET j == SkipBlank(recs, n + 1)
    IN  IF j < Len(recs)
        THEN LET t1 == RecordFirst(idx, AMERICAS, n,
                           recs[n + 1].norm \in US_ALIASES /\ H_AMER(recs[j + 1].norm))
             IN  RecordFirst(t1, GREATER_CHINA, n,
                     recs[n + 1].norm \in CN_ALIASES /\ H_GC(recs[j + 1].norm))
        ELSE idx

\* sum(len(lines[m]) for m in range(n))
RECURSIVE Offset(_, _)
Offset(lns, n) == IF n = 0 THEN 0 ELSE Offset(lns, n - 1) + Len(lns[n])

\* A mutant of EndLine: the loop over the heading candidates has no break, so
\* the last candidate after the start line is taken.
EndLineNoBreak(lns, heads, start_line) ==
    IF \E h \in heads : h > start_line
    THEN Max({h \in heads : h > start_line})
    ELSE Len(lns)

\* span_from: end_line is the first heading candidate after start_line, or
\* len(lines)
EndLine(lns, heads, start_line) ==
    IF \E h \in heads : h > start_line
    THEN Min({h \in heads : h > start_line})
    ELSE Len(lns)

span_from(lns, heads, start_line) ==
    [start_abs  |-> Offset(lns, start_line),
     end_abs    |-> Offset(lns, EndLine(lns, heads, start_line)),
     start_line |-> start_line]

\* full[start_abs:end_abs]
Slice(str, a, b) == SubSeq(str, a + 1, b)

---------------------------------------------------------------------------
(* The documents: concatenations of at most MaxLines pieces.               *)

P_TODAY == <<"T", "o", "d", "a", "y", RSQUO, "s", " ", "M", "u", "s", "t", "-", "K", "n", "o", "w", " ", "N", "e", "w", "s", "\n">>

P_AMER_ENUM == <<"1", ".", " ", "A", "m", "e", "r", "i", "c", "a", "s", "\r", "\n">>

P_US_DOTS == <<"U", ".", "S", ".", "\n">>

P_GC == <<"G", "r", "e", "a", "t", "e", "r", " ", "C", "h", "i", "n", "a", "\n">>

P_CHINA == <<"C", "h", "i", "n", "a", "\n">>

P_BLANK == <<"\n">>

P_BODY == <<"F", "e", "d", " ", "h", "o", "l", "d", "s", ".", "\n">>

P_DECOY == <<"D", "e", "c", "o", "y", "\r">>

P_AMER_BARE == <<"A", "m", "e", "r", "i", "c", "a", "s">>

Fill(c, n) == [m \in 1..n |-> c]

\* "1." and "Americas" with blanks between them: a line of MaxHeadingLen + 1
\* characters that matches H_AMER
P_AMER_PADDED ==
    <<"1", ".">> \o Fill(" ", MaxHeadingLen + 1 - 2 - Len(P_AMER_BARE)) \o P_AMER_BARE \o <<"\n">>

\* a line of exactly MaxHeadingLen characters
P_LONG == Fill("x", MaxHeadingLen) \o <<"\n">>

Pieces ==
    {
      P_TODAY,
      P_AMER_ENUM,
      P_US_DOTS,
      P_GC,
      P_CHINA,
      P_BLANK,
      P_BODY,
      P_DECOY,
      P_AMER_BARE,
      P_LONG,
      P_AMER_PADDED
    }

Docs == {Concat(ps) : ps \in UNION {[1..n -> Pieces] : n \in 0..MaxLines}}

---------------------------------------------------------------------------
(* The upload flow of the UI.                                              *)

Init ==
    /\ pc = "upload"
    /\ report = "none"
    /\ full = <<>>
    /\ lines = <<>>
    /\ L = <<>>
    /\ target_idx = <<>>
    /\ all_heads = {}
    /\ i = 0
    /\ spans = <<>>
    /\ k = 0
    /\ rendered = <<>>
    /\ line = <<>> /\ norm = <<>> /\ renorm = <<>> /\ matched = {}
    /\ s = <<>> /\ limit = 0 /\ remain = <<>> /\ parts = <<>>

\* file.read() or the extractor raises: st.error("Failed to read PDF"), st.stop()
ExtractRaises ==
    /\ pc = "upload"
    /\ report' = "read_failed"
    /\ pc' = "stopped"
    /\ UNCHANGED <<full, lines, L, target_idx, all_heads, i, spans, k, rendered>>
    /\ UNCHANGED lineVars
    /\ UNCHANGED splitVars

\* the extractor returns blank text: st.error("Could not extract"), st.stop()
ExtractBlank ==
    /\ pc = "upload"
    /\ \E doc \in Docs :
          /\ Strip(doc) = <<>>
          /\ full' = doc
    /\ report' = "no_text"
    /\ pc' = "stopped"
    /\ UNCHANGED <<lines, L, target_idx, all_heads, i, spans, k, rendered>>
    /\ UNCHANGED lineVars
    /\ UNCHANGED splitVars

\* the extractor returns text; find_section_spans starts
ExtractText ==
    /\ pc = "upload"
    /\ \E doc \in Docs :
          /\ Strip(doc) # <<>>
          /\ full' = doc
          /\ LET lns == splitlines(doc)
             IN  lines' = lns /\ L' = LineRecords(lns)
    /\ target_idx' = <<>>
    /\ all_heads' = {}
    /\ i' = 0
    /\ pc' = "scan"
    /\ UNCHANGED <<report, spans, k, rendered>>
    /\ UNCHANGED lineVars
    /\ UNCHANGED splitVars

\* one iteration of the scan loop of find_section_spans
ScanLine ==
    /\ pc = "scan"
    /\ i < Len(L)
    /\ target_idx' = TwoLine(SingleLine(target_idx, i, L[i + 1].norm), i, L)
    /\ all_heads' = IF looks_like_heading(L[i + 1].raw) THEN all_heads \cup {i} ELSE all_heads
    /\ i' = i + 1
    /\ UNCHANGED <<pc, report, full, lines, L, spans, k, rendered>>
    /\ UNCHANGED lineVars
    /\ UNCHANGED splitVars

\* the spans of the resolved keys
BuildSpans(lns, heads, idx) == [key \in DOMAIN idx |-> span_from(lns, heads, idx[key])]

\* find_section_spans returns an empty mapping: st.warning, st.stop()
SpansEmpty ==
    /\ pc = "scan"
    /\ i = Len(L)
    /\ DOMAIN target_idx = {}
    /\ spans' = BuildSpans(lines, all_heads, target_idx)
    /\ report' = "not_found"
    /\ pc' = "stopped"
    /\ UNCHANGED <<full, lines, L, target_idx, all_heads, i, k, rendered>>
    /\ UNCHANGED lineVars
    /\ UNCHANGED splitVars

\* find_section_spans returns spans: the render loop starts
SpansFound ==
    /\ pc = "scan"
    /\ i = Len(L)
    /\ DOMAIN target_idx # {}
    /\ spans' = BuildSpans(lines, all_heads, target_idx)
    /\ k' = 0
    /\ pc' = "render"
    /\ UNCHANGED <<report, full, lines, L, target_idx, all_heads, i, rendered>>
    /\ UNCHANGED lineVars
    /\ UNCHANGED splitVars

\* A mutant of RenderNext: the loop is left at the first absent key.
RenderBreak(n) == IF SECTION_ORDER[n + 1] \in DOMAIN spans THEN n + 1 ELSE Len(SECTION_ORDER)

\* the index of the next iteration of the render loop (continue on an absent key)
RenderNext(n) == n + 1

\* one iteration of the render loop: the key is absent
RenderSkip ==
    /\ pc = "render"
    /\ k < Len(SECTION_ORDER)
    /\ SECTION_ORDER[k + 1] \notin DOMAIN spans
    /\ k' = RenderNext(k)
    /\ UNCHANGED <<pc, report, full, lines, L, target_idx, all_heads, i, spans, rendered>>
    /\ UNCHANGED lineVars
    /\ UNCHANGED splitVars

\* one iteration of the render loop: the section is rendered
RenderSection ==
    /\ pc = "render"
    /\ k < Len(SECTION_ORDER)
    /\ SECTION_ORDER[k + 1] \in DOMAIN spans
    /\ LET key == SECTION_ORDER[k + 1]
       IN  rendered' = Append(rendered,
               [key |-> key,
                section_raw |-> Slice(full, spans[key].start_abs, spans[key].end_abs)])
    /\ k' = RenderNext(k)
    /\ UNCHANGED <<pc, report, full, lines, L, target_idx, all_heads, i, spans>>
    /\ UNCHANGED lineVars
    /\ UNCHANGED splitVars

\* the render loop is over
RenderDone ==
    /\ pc = "render"
    /\ k >= Len(SECTION_ORDER)
    /\ pc' = "done"
    /\ UNCHANGED <<report, full, lines, L, target_idx, all_heads, i, spans, k, rendered>>
    /\ UNCHANGED lineVars
    /\ UNCHANGED splitVars

Next ==
    \/ ExtractRaises
    \/ ExtractBlank
    \/ ExtractText
    \/ ScanLine
    \/ SpansEmpty
    \/ SpansFound
    \/ RenderSkip
    \/ RenderSection
    \/ RenderDone

Spec == Init /\ [][Next]_vars

---------------------------------------------------------------------------
(* Claims about find_section_spans and the upload flow (Spec).             *)

\* the scan loop is over and the spans are computed
SpansReady == pc \in {"render", "done"} \/ (pc = "stopped" /\ report = "not_found")

\* the offset of line n in the text: the length of the lines before it
LineOffset(n) == Len(Concat(SubSeq(lines, 1, n)))

Blank(n) == Strip(lines[n + 1]) = <<>>

Aliases(key) ==
    CASE key = AMERICAS -> US_ALIASES
      [] key = GREATER_CHINA -> CN_ALIASES
      [] OTHER -> {}

\* line n is an alias line of the key and j is the next non-blank line, which
\* matches the key's pattern
AliasPair(key, n, j) ==
    /\ n < j /\ j < Len(lines)
    /\ L[n + 1].norm \in Aliases(key)
    /\ \A m \in (n + 1)..(j - 1) : Blank(m)
    /\ ~Blank(j)
    /\ Matches(key, L[j + 1].norm)

\* line n qualifies as the heading line of the key
Qualifies(key, n) ==
    \/ Matches(key, L[n + 1].norm)
    \/ \E j \in (n + 1)..(Len(lines) - 1) : AliasPair(key, n, j)

\* the shape of a heading candidate: the stripped line is not empty, has at
\* most 80 characters and does not end in one of . ! ? ; ,
HeadingShape(raw) ==
    \E a \in 1..Len(raw) :
        /\ raw[a] \notin SpaceChars
        /\ \A m \in 1..(a - 1) : raw[m] \in SpaceChars
        /\ \E b \in a..Len(raw) :
               /\ raw[b] \notin SpaceChars
               /\ \A m \in (b + 1)..Len(raw) : raw[m] \in SpaceChars
               /\ b - a + 1 <= 80
               /\ raw[b] \notin {".", "!", "?", ";", ","}

\* the end line the claims give a section that starts at line n
EndRef(n) ==
    LET after == {e \in (n + 1)..(Len(lines) - 1) : HeadingShape(lines[e + 1])}
    IN  IF after = {} THEN Len(lines) ELSE Min(after)

\* C1: the span of every resolved key ends at the offset of the first line
\* after its heading line for which looks_like_heading holds, and at the end
\* of the document when there is no such line.
C1_SpanTermination ==
    SpansReady =>
        \A key \in DOMAIN spans :
            spans[key].end_abs = LineOffset(EndRef(spans[key].start_line))

\* A span ended at a heading candidate after skipping a line that is none.
C1_Witness ==
    /\ pc = "done"
    /\ \E key \in DOMAIN spans :
          /\ EndRef(spans[key].start_line) < Len(lines)
          /\ EndRef(spans[key].start_line) > spans[key].start_line + 1
          /\ spans[key].end_abs = LineOffset(EndRef(spans[key].start_line))

\* what the scan has recorded for the key after the lines before n
FirstAmong(key, n) ==
    LET q == {m \in 0..(n - 1) : Qualifies(key, m)}
    IN  IF q = {} THEN key \notin DOMAIN target_idx
        ELSE key \in DOMAIN target_idx /\ target_idx[key] = Min(q)

C2_First == pc \in {"scan", "render", "done"} => \A key \in Keys : FirstAmong(key, i)

C2_Kept ==
    \A key \in DOMAIN target_idx :
        key \in DOMAIN target_idx' /\ target_idx'[key] = target_idx[key]

\* C2: first match wins: at every point of the scan the index recorded for a
\* key is the smallest line index scanned so far that qualifies for the key
\* (single-line match or alias line before a matching line), and an index
\* once recorded is never overwritten.
C2_FirstMatchWins == []C2_First /\ [][C2_Kept]_vars

\* A key with two qualifying lines has the first one recorded.
C2_Witness ==
    /\ pc = "done"
    /\ \E key \in DOMAIN target_idx :
          \E m \in 0..(Len(lines) - 1) :
              /\ m > target_idx[key]
              /\ Qualifies(key, m)
              /\ Qualifies(key, target_idx[key])

\* C3: an alias line followed, after zero or more blank lines, by a line that
\* matches the key's pattern is recorded as the heading line of americas
\* (US aliases) or greater_china (China aliases) when no earlier line
\* qualifies; the matching line's own index is not what is recorded.
C3_AliasPrecedence ==
    SpansReady =>
        \A key \in {AMERICAS, GREATER_CHINA} :
            \A n \in 0..(Len(lines) - 1), j \in 0..(Len(lines) - 1) :
                (AliasPair(key, n, j) /\ \A m \in 0..(n - 1) : ~Qualifies(key, m))
                    => /\ key \in DOMAIN spans
                       /\ spans[key].start_line = n
                       /\ spans[key].start_line # j
                       /\ spans[key].start_abs = LineOffset(n)

\* An alias line, a blank line and the canonical heading line: the alias
\* line is the heading start.
C3_Witness ==
    /\ pc = "done"
    /\ \E key \in {AMERICAS, GREATER_CHINA} :
          \E n \in 0..(Len(lines) - 1), j \in 0..(Len(lines) - 1) :
              /\ AliasPair(key, n, j)
              /\ j > n + 1
              /\ key \in DOMAIN spans
              /\ spans[key].start_line = n

\* C4: verbatim: the offsets of a span are the summed lengths of the lines
\* before its heading line and before its end line, the slice of the text
\* between them is the concatenation of the raw lines of the section, and
\* the text before, inside and after the span makes up the text again.
C4_Verbatim ==
    SpansReady =>
        \A key \in DOMAIN spans :
            LET st == spans[key].start_line
                e  == EndRef(st)
                a  == spans[key].start_abs
                b  == spans[key].end_abs
            IN  /\ a = LineOffset(st)
                /\ b = LineOffset(e)
                /\ Slice(full, a, b) = Concat(SubSeq(lines, st + 1, e))
                /\ Slice(full, 0, a) \o Slice(full, a, b) \o Slice(full, b, Len(full)) = full
                /\ \A n \in 1..Len(rendered) :
                       rendered[n].key = key
                           => rendered[n].section_raw = Concat(SubSeq(lines, st + 1, e))

\* A section that starts after the first line and ends before the last one,
\* with a \r\n terminator inside, was rendered.
C4_Witness ==
    /\ pc = "done"
    /\ \E n \in 1..Len(rendered) :
          LET key == rendered[n].key
              txt == rendered[n].section_raw
          IN  /\ spans[key].start_abs > 0
              /\ spans[key].end_abs < Len(full)
              /\ \E m \in 1..(Len(txt) - 1) : txt[m] = "\r" /\ txt[m + 1] = "\n"

Pos(key) == CHOOSE n \in 1..Len(SECTION_ORDER) : SECTION_ORDER[n] = key

Disjoint(x, y) == x.end_abs <= y.start_abs \/ y.end_abs <= x.start_abs

\* C5 as stated: two keys whose heading lines are in the canonical order have
\* disjoint spans.
C5_Original ==
    SpansReady =>
        \A x \in DOMAIN spans, y \in DOMAIN spans :
            (Pos(x) < Pos(y) /\ spans[x].start_line < spans[y].start_line)
                => Disjoint(spans[x], spans[y])

\* C5, amended: two keys whose heading lines are in the canonical order have
\* disjoint spans when the heading line of the later key satisfies
\* looks_like_heading.
C5_DisjointInOrder ==
    SpansReady =>
        \A x \in DOMAIN spans, y \in DOMAIN spans :
            (/\ Pos(x) < Pos(y)
             /\ spans[x].start_line < spans[y].start_line
             /\ looks_like_heading(lines[spans[y].start_line + 1]))
                => Disjoint(spans[x], spans[y])

\* Two keys in canonical order, the later one on a heading-candidate line
\* that is not the last line of the document.
C5_Witness ==
    /\ pc = "done"
    /\ \E x \in DOMAIN spans, y \in DOMAIN spans :
          /\ Pos(x) < Pos(y)
          /\ spans[x].start_line < spans[y].start_line
          /\ looks_like_heading(lines[spans[y].start_line + 1])
          /\ spans[y].start_line + 1 < Len(lines)
          /\ spans[x].end_abs = spans[y].start_abs

RenderedKeys == [n \in 1..Len(rendered) |-> rendered[n].key]

Resolved(key) == key \in DOMAIN spans

\* C6: nothing is rendered when extraction raises or yields blank text or no
\* key is resolved, each being reported with the script stopped; otherwise
\* the sections rendered are the resolved keys in the order of SECTION_ORDER,
\* an absent key being skipped.
C6_FailFast ==
    /\ pc \in {"upload", "scan", "stopped"} => rendered = <<>>
    /\ (pc = "stopped") <=> (report # "none")
    /\ (pc = "stopped" /\ full # <<>> /\ Strip(full) # <<>>) =>
           (report = "not_found" /\ DOMAIN spans = {} /\ DOMAIN target_idx = {})
    /\ (pc = "stopped" /\ Strip(full) = <<>>) => report \in {"read_failed", "no_text"}
    /\ pc \in {"render", "done"} =>
           /\ DOMAIN spans = DOMAIN target_idx
           /\ DOMAIN spans # {}
           /\ RenderedKeys = SelectSeq(SubSeq(SECTION_ORDER, 1, k), Resolved)
    /\ pc = "done" => RenderedKeys = SelectSeq(SECTION_ORDER, Resolved)

\* The first key is absent and the two others were rendered.
C6_Witness ==
    /\ pc = "done"
    /\ TODAY \notin DOMAIN spans
    /\ RenderedKeys = <<AMERICAS, GREATER_CHINA>>

\* C9: a key resolved at an alias line whose paired canonical heading line
\* satisfies looks_like_heading has a span that ends at that line: the
\* section holds the alias line and the blank lines after it, nothing else.
C9_AliasSpanStopsAtHeading ==
    SpansReady =>
        \A key \in {AMERICAS, GREATER_CHINA} \cap DOMAIN spans :
            \A j \in 0..(Len(lines) - 1) :
                (AliasPair(key, spans[key].start_line, j) /\ looks_like_heading(lines[j + 1]))
                    => /\ spans[key].end_abs <= LineOffset(j)
                       /\ Slice(full, spans[key].start_abs, spans[key].end_abs)
                              = Concat(SubSeq(lines, spans[key].start_line + 1, j))

\* A key resolved at an alias line, its canonical heading line being a
\* heading candidate followed by more text.
C9_Witness ==
    /\ pc = "done"
    /\ \E key \in {AMERICAS, GREATER_CHINA} \cap DOMAIN spans :
          \E j \in 0..(Len(lines) - 1) :
              /\ AliasPair(key, spans[key].start_line, j)
              /\ looks_like_heading(lines[j + 1])
              /\ j + 1 < Len(lines)
              /\ spans[key].end_abs = LineOffset(j)

---------------------------------------------------------------------------
(* split_for_platform(s, limit).                                           *)

SplitChars == {"a", "\n"}

SplitInputs == UNION {[1..n -> SplitChars] : n \in 1..MaxStr}

\* window.rfind(sub): the highest 0-based index at which sub starts, or -1
rfind(window, sub) ==
    LET at == {p \in 0..(Len(window) - Len(sub)) : SubSeq(window, p + 1, p + Len(sub)) = sub}
    IN  IF at = {} THEN -1 ELSE Max(at)

\* the place of the cut in remain: a blank line, else a line break, else limit
CutAt(rem, lim) ==
    LET window == SubSeq(rem, 1, lim)
        c1 == rfind(window, <<"\n", "\n">>)
        c2 == IF c1 < 0 THEN rfind(window, <<"\n">>) ELSE c1
    IN  IF c2 < 0 THEN lim ELSE c2

\* remain[cut:], without its first character when that is a newline
AfterCut(rem, cut) ==
    LET rest == SubSeq(rem, cut + 1, Len(rem))
    IN  IF rest # <<>> /\ Head(rest) = "\n" THEN Tail(rest) ELSE rest

InitSplit ==
    /\ pc = "split"
    /\ s \in SplitInputs
    /\ limit \in 1..MaxLimit
    /\ remain = s
    /\ parts = <<>>
    /\ report = "none" /\ full = <<>> /\ lines = <<>> /\ L = <<>>
    /\ target_idx = <<>> /\ all_heads = {} /\ i = 0 /\ spans = <<>>
    /\ k = 0 /\ rendered = <<>>
    /\ line = <<>> /\ norm = <<>> /\ renorm = <<>> /\ matched = {}

\* if len(s) <= limit: return [s]
SplitWhole ==
    /\ pc = "split"
    /\ Len(s) <= limit
    /\ parts' = <<s>>
    /\ pc' = "split_done"
    /\ UNCHANGED <<s, limit, remain>>
    /\ UNCHANGED <<report, full, lines, L, target_idx, all_heads, i, spans, k, rendered>>
    /\ UNCHANGED lineVars

\* one iteration of the while loop
SplitCut ==
    /\ pc \in {"split", "cutting"}
    /\ Len(remain) > limit
    /\ parts' = Append(parts, SubSeq(remain, 1, CutAt(remain, limit)))
    /\ remain' = AfterCut(remain, CutAt(remain, limit))
    /\ pc' = "cutting"
    /\ UNCHANGED <<s, limit>>
    /\ UNCHANGED <<report, full, lines, L, target_idx, all_heads, i, spans, k, rendered>>
    /\ UNCHANGED lineVars

\* if remain: parts.append(remain); return parts
SplitRest ==
    /\ pc = "cutting"
    /\ Len(remain) <= limit
    /\ parts' = IF remain # <<>> THEN Append(parts, remain) ELSE parts
    /\ pc' = "split_done"
    /\ UNCHANGED <<s, limit, remain>>
    /\ UNCHANGED <<report, full, lines, L, target_idx, all_heads, i, spans, k, rendered>>
    /\ UNCHANGED lineVars

NextSplit == SplitWhole \/ SplitCut \/ SplitRest

SpecSplit == InitSplit /\ [][NextSplit]_vars

\* C10: every chunk split_for_platform returns for a non-empty string and a
\* limit of at least 1 is non-empty.
C10_NoEmptyChunk ==
    pc = "split_done" => \A n \in 1..Len(parts) : parts[n] # <<>>

=============================================================================
